---- MODULE Spec2Model ----
(***************************************************************************)
(* A model of tools/generate_project.py: the component set resolver, the   *)
(* configuration/define merger, the define injection engine and the        *)
(* sequencing of the pipeline stages of main().                            *)
(*                                                                         *)
(* Text is modelled as sequences: an identifier is a sequence of           *)
(* one-character strings (the chip/board pattern reads it character by     *)
(* character), a header line is a sequence of lexical tokens (the engine   *)
(* only looks for whole tokens), a header file is the sequence of its      *)
(* lines (text.split("\n") and "\n".join are inverse on such sequences).   *)
(***************************************************************************)
EXTENDS Integers, Sequences, FiniteSets, TLC

VARIABLES
    \* ---- component set resolver (main, lines 191-208)
    base_component,     \* base_project["component"]
    device,             \* manifest["device"]
    add_components,     \* manifest.get("add_components", [])
    remove_components,  \* manifest.get("remove_components", [])
    component,          \* output_project["component"]
    remove_pos,         \* entries of remove_components already handled
    warnings,           \* components LOGGER.warning was called with, in order
    rpc,                \* position of the resolver
    \* ---- configuration and define merger (main, lines 210-226, 268-270)
    m_configuration,    \* manifest.get("configuration", {}), in dict order
    m_slcp_defines,     \* manifest.get("slcp_defines", {}), in dict order
    base_project,       \* the base descriptor's two fields, never mutated
    out_configuration,  \* output_project["configuration"]
    out_define,         \* output_project["define"], when the key exists
    once,               \* the two sequences as the first merge left them
    passes,             \* how many times the merge has been applied
    written_project,    \* the descriptor yaml.dump wrote, "none" before
    mpc,                \* position of the merger
    \* ---- define injection engine and pipeline (main, lines 268-466)
    c_defines,          \* manifest.get("c_defines", {}), in dict order
    project_defines,    \* names in output_project.get("define", [])
    build_system,       \* args.build_system
    headers,            \* the *.h files under autogen/ and config/, in
                        \* the order the two globs yield them
    generated,          \* the files as the generator left them
    scanned_input,      \* the files as they were when this run started
    scan_pos,           \* files the loop of lines 317-318 has finished
    unused_defines,     \* the set of line 315
    consumed,           \* per name: replacement lines appended (line 352)
    emitted,            \* every replacement line with the line it replaces
    diagnostic,         \* what the run printed or raised when it stopped
    run,                \* 1 for the pipeline's run of the engine
    first_result,       \* the files as the first run left them
    log,                \* the pipeline's side effects, in order
    pc                  \* position of the pipeline

rvars == <<base_component, device, add_components, remove_components,
           component, remove_pos, warnings, rpc>>

mvars == <<m_configuration, m_slcp_defines, base_project, out_configuration,
           out_define, once, passes, written_project, mpc>>

ivars == <<c_defines, project_defines, build_system, headers, generated,
           scanned_input, scan_pos, unused_defines, consumed, emitted,
           diagnostic, run, first_result, log, pc>>

vars == <<rvars, mvars, ivars>>

(***************************************************************************)
(* Bounds of the model.                                                    *)
(***************************************************************************)
MaxBase == 3
MaxAdd == 1
MaxRemove == 1
MaxEntries == 2
MaxMap == 2
MaxBlocks == 2
MaxRuns == 2

(***************************************************************************)
(* Generic sequence helpers.                                               *)
(***************************************************************************)
SeqsUpTo(S, n) == UNION {[1..k -> S] : k \in 0..n}

Range(s) == {s[i] : i \in DOMAIN s}

RemoveAt(s, i) == SubSeq(s, 1, i - 1) \o SubSeq(s, i + 1, Len(s))

\* Python's list.index: the first position holding x, 0 when there is none.
FirstIndex(s, x) ==
    IF \E i \in DOMAIN s : s[i] = x
    THEN CHOOSE i \in DOMAIN s : s[i] = x /\ \A j \in 1..(i - 1) : s[j] # x
    ELSE 0

(***************************************************************************)
(* CHIP_SPECIFIC_REGEX, flags IGNORECASE | VERBOSE.                        *)
(***************************************************************************)
LowerLetters == {"a","b","c","d","e","f","g","h","i","j","k","l","m",
                 "n","o","p","q","r","s","t","u","v","w","x","y","z"}
UpperLetters == {"A","B","C","D","E","F","G","H","I","J","K","L","M",
                 "N","O","P","Q","R","S","T","U","V","W","X","Y","Z"}
\* [a-z] under re.IGNORECASE
Letters == LowerLetters \cup UpperLetters
\* \d
Digits == {"0","1","2","3","4","5","6","7","8","9"}

MinGroups == 2
MaxGroups == 5

\* The position after the longest run of characters of S starting at i.
RECURSIVE SkipRun(_, _, _)
SkipRun(s, i, S) ==
    IF i <= Len(s) /\ s[i] \in S THEN SkipRun(s, i + 1, S) ELSE i

\* (?:[a-z]+\d+){..5} from position i with n groups taken so far: letters and
\* digits are disjoint, so each group is the whole letter run and the whole
\* digit run and the greedy match is the only one.
RECURSIVE TakeGroups(_, _, _)
TakeGroups(s, i, n) ==
    LET j == SkipRun(s, i, Letters)
        k == SkipRun(s, j, Digits)
    IN  IF n < MaxGroups /\ j > i /\ k > j
        THEN TakeGroups(s, k, n + 1)
        ELSE [n |-> n, pos |-> i]

\* ^(?:[a-z]+\d+){2,5}[a-z]*$
ChipMatch(s) ==
    LET g == TakeGroups(s, 1, 0)
    IN  /\ g.n >= MinGroups
        /\ SkipRun(s, g.pos, Letters) = Len(s) + 1

\* ^brd\d+[a-z](?:_.+)?$
BoardMatch(s) ==
    /\ Len(s) >= 3
    /\ s[1] \in {"b", "B"} /\ s[2] \in {"r", "R"} /\ s[3] \in {"d", "D"}
    /\ LET j == SkipRun(s, 4, Digits)
       IN  /\ j > 4
           /\ j <= Len(s) /\ s[j] \in Letters
           /\ \/ j = Len(s)
              \/ j + 1 <= Len(s) /\ s[j + 1] = "_" /\ j + 2 <= Len(s)

CHIP_SPECIFIC_REGEX(s) == ChipMatch(s) \/ BoardMatch(s)

(***************************************************************************)
(* Identifiers and components of the model's inputs.  A component is the   *)
(* mapping {id, instance?}; instance = "" stands for a mapping without     *)
(* that key.                                                               *)
(***************************************************************************)
Id_mgm210pb32jia == <<"m","g","m","2","1","0","p","b","3","2","j","i","a">>
Id_bluetooth_stack ==
    <<"b","l","u","e","t","o","o","t","h","_","s","t","a","c","k">>
Id_led_driver == <<"l","e","d","_","d","r","i","v","e","r">>
Id_efr32fg14p231f256gm32 ==
    <<"e","f","r","3","2","f","g","1","4","p","2","3","1","f","2","5","6",
      "g","m","3","2">>
Id_brd4001a == <<"b","r","d","4","0","0","1","a">>

Comp(id) == [id |-> id, instance |-> ""]
CompInst(id, inst) == [id |-> id, instance |-> inst]

BaseCandidates ==
    {Comp(Id_mgm210pb32jia), Comp(Id_brd4001a), Comp(Id_bluetooth_stack),
     Comp(Id_led_driver), CompInst(Id_led_driver, "led0")}
AddCandidates == {Comp(Id_led_driver), Comp(Id_brd4001a)}
RemoveCandidates ==
    {Comp(Id_led_driver), Comp(Id_bluetooth_stack),
     Comp(Id_efr32fg14p231f256gm32)}
DeviceCandidates == {Id_efr32fg14p231f256gm32, Id_mgm210pb32jia}

(***************************************************************************)
(* Component set resolver.                                                 *)
(***************************************************************************)
\* [c for c in output_project["component"]
\*    if not CHIP_SPECIFIC_REGEX.match(c["id"])]
StripChipSpecific(comps) ==
    SelectSeq(comps, LAMBDA c : ~CHIP_SPECIFIC_REGEX(c.id))

\* A removal that drops every element equal to x, not only the first.
ListRemoveAll(s, x) ==
    [list |-> SelectSeq(s, LAMBDA y : y # x), found |-> FirstIndex(s, x) # 0]

\* list.remove(x): drops the first element equal to x; ValueError (here: the
\* list unchanged and found = FALSE) when there is none.
ListRemove(s, x) ==
    LET i == FirstIndex(s, x)
    IN  IF i = 0 THEN [list |-> s, found |-> FALSE]
        ELSE [list |-> RemoveAt(s, i), found |-> TRUE]

IdleResolve ==
    /\ base_component = <<>> /\ device = <<>> /\ add_components = <<>>
    /\ remove_components = <<>> /\ component = <<>> /\ remove_pos = 0
    /\ warnings = <<>> /\ rpc = "idle"

InitResolve ==
    /\ base_component \in SeqsUpTo(BaseCandidates, MaxBase)
    /\ device \in DeviceCandidates
    /\ add_components \in SeqsUpTo(AddCandidates, MaxAdd)
    /\ remove_components \in SeqsUpTo(RemoveCandidates, MaxRemove)
    /\ component = base_component       \* copy.deepcopy(base_project)
    /\ remove_pos = 0
    /\ warnings = <<>>
    /\ rpc = "strip"

\* lines 191-195: strip the chip- and board-specific components, append the
\* device.
StripAndInstallDevice ==
    /\ rpc = "strip"
    /\ component' = Append(StripChipSpecific(component), Comp(device))
    /\ rpc' = "add"
    /\ UNCHANGED <<base_component, device, add_components, remove_components,
                   remove_pos, warnings>>
    /\ UNCHANGED <<mvars, ivars>>

\* line 198: component.extend(add_components)
AddComponents ==
    /\ rpc = "add"
    /\ component' = component \o add_components
    /\ rpc' = "remove"
    /\ UNCHANGED <<base_component, device, add_components, remove_components,
                   remove_pos, warnings>>
    /\ UNCHANGED <<mvars, ivars>>

\* lines 202-208: one iteration of the loop over remove_components.
RemoveComponent ==
    /\ rpc = "remove"
    /\ remove_pos < Len(remove_components)
    /\ LET c == remove_components[remove_pos + 1]
           r == ListRemove(component, c)
       IN  \/ /\ r.found
              /\ component' = r.list
              /\ warnings' = warnings
           \/ /\ ~r.found
              /\ component' = component
              /\ warnings' = Append(warnings, c)
    /\ remove_pos' = remove_pos + 1
    /\ UNCHANGED <<base_component, device, add_components, remove_components,
                   rpc>>
    /\ UNCHANGED <<mvars, ivars>>

\* the loop of line 202 is exhausted
ResolveDone ==
    /\ rpc = "remove"
    /\ remove_pos = Len(remove_components)
    /\ rpc' = "resolved"
    /\ UNCHANGED <<base_component, device, add_components, remove_components,
                   component, remove_pos, warnings>>
    /\ UNCHANGED <<mvars, ivars>>

NextResolve ==
    \/ StripAndInstallDevice
    \/ AddComponents
    \/ RemoveComponent
    \/ ResolveDone

(***************************************************************************)
(* Configuration and define merger.  A YAML scalar is a tagged value; an   *)
(* entry is the mapping {name, value}; a manifest map is the sequence of   *)
(* its items in iteration order, the names distinct.  A descriptor field   *)
(* is [present, list]: the key may be missing from the base descriptor.    *)
(***************************************************************************)
StrVal(s) == [t |-> "str", v |-> s]
IntVal(n) == [t |-> "int", v |-> n]
BoolVal(b) == [t |-> "bool", v |-> b]

\* str(value), line 217
PyStr(value) ==
    CASE value.t = "str" -> value
      [] value.t = "int" -> StrVal(ToString(value.v))
      [] value.t = "bool" -> StrVal(IF value.v THEN "True" ELSE "False")

Entry(name, value) == [name |-> name, value |-> value]

\* A merge step that appends without looking for an entry of that name.
MergeItemAppend(output_config, name, value) ==
    Append(output_config, Entry(name, value))

\* lines 219-226: replace the value of the first entry of that name, or
\* append a new entry.
MergeItem(output_config, name, value) ==
    LET hits == {i \in DOMAIN output_config : output_config[i].name = name}
    IN  IF hits # {}
        THEN LET i == CHOOSE h \in hits : \A g \in hits : h <= g
             IN  [output_config EXCEPT ![i].value = value]
        ELSE Append(output_config, Entry(name, value))

\* lines 215-226: the loop over input_config.items()
RECURSIVE MergeMap(_, _)
MergeMap(input_config, output_config) ==
    IF input_config = <<>> THEN output_config
    ELSE MergeMap(Tail(input_config),
                  MergeItem(output_config, Head(input_config).name,
                            PyStr(Head(input_config).value)))

\* line 213: output_project.get("define", []) is the descriptor's own list
\* when the key exists and a fresh list, referenced by nothing else, when it
\* does not.
DefineTarget(field) ==
    IF field.present THEN field ELSE [present |-> FALSE, list |-> <<>>]

Field(list) == [present |-> TRUE, list |-> list]
NoField == [present |-> FALSE, list |-> <<>>]

DistinctNames(m) == \A i, j \in DOMAIN m : i # j => m[i].name # m[j].name

BaseConfigEntries ==
    {Entry("TX_POWER", StrVal("5")), Entry("RETRIES", StrVal("3"))}
BaseDefineEntries == {Entry("DEF_A", IntVal(0))}
ConfigItems ==
    {Entry(n, v) : n \in {"TX_POWER", "NEW"},
                   v \in {StrVal("10"), IntVal(1), BoolVal(TRUE)}}
DefineItems == {Entry(n, IntVal(1)) : n \in {"DEF_A", "DEF_B"}}

IdleMerge ==
    /\ m_configuration = <<>> /\ m_slcp_defines = <<>>
    /\ base_project = [configuration |-> NoField, define |-> NoField]
    /\ out_configuration = NoField /\ out_define = NoField
    /\ once = "none" /\ passes = 0 /\ written_project = "none"
    /\ mpc = "idle"

InitMerge ==
    /\ m_configuration \in
           {m \in SeqsUpTo(ConfigItems, MaxMap) : DistinctNames(m)}
    /\ m_slcp_defines \in
           {m \in SeqsUpTo(DefineItems, MaxMap) : DistinctNames(m)}
    /\ base_project \in
           [configuration :
                {NoField} \cup
                {Field(l) : l \in SeqsUpTo(BaseConfigEntries, MaxEntries)},
            define :
                {NoField} \cup
                {Field(l) : l \in SeqsUpTo(BaseDefineEntries, MaxEntries)}]
    \* output_project = copy.deepcopy(base_project), line 189
    /\ out_configuration = base_project.configuration
    /\ out_define = base_project.define
    /\ once = "none"
    /\ passes = 0
    /\ written_project = "none"
    /\ mpc = "merge"

\* The body of lines 211-226 on both pairs; the mutation of a list the
\* descriptor holds is a mutation of the descriptor.
Merged ==
    LET target == DefineTarget(out_define)
        merged == MergeMap(m_slcp_defines, target.list)
    IN  [configuration |->
             Field(MergeMap(m_configuration, out_configuration.list)),
         define |-> IF target.present THEN Field(merged) ELSE out_define]

\* lines 210-226
MergeConfigAndDefines ==
    /\ mpc = "merge"
    /\ \/ /\ out_configuration.present
          /\ out_configuration' = Merged.configuration
          /\ out_define' = Merged.define
          /\ once' = Merged
          /\ passes' = 1
          /\ mpc' = "merged"
       \/ \* line 212: output_project["configuration"] raises KeyError
          /\ ~out_configuration.present
          /\ mpc' = "KeyError"
          /\ UNCHANGED <<out_configuration, out_define, once, passes>>
    /\ UNCHANGED <<m_configuration, m_slcp_defines, base_project,
                   written_project>>
    /\ UNCHANGED <<rvars, ivars>>

\* The same maps merged a second time into the result of the first merge.
MergeAgain ==
    /\ mpc = "merged"
    /\ passes = 1
    /\ out_configuration' = Merged.configuration
    /\ out_define' = Merged.define
    /\ passes' = 2
    /\ UNCHANGED <<m_configuration, m_slcp_defines, base_project, once,
                   written_project, mpc>>
    /\ UNCHANGED <<rvars, ivars>>

\* lines 268-270: yaml.dump(output_project, f)
WriteProject ==
    /\ mpc = "merged"
    /\ passes = 1
    /\ written_project' =
           [configuration |-> out_configuration, define |-> out_define]
    /\ mpc' = "written"
    /\ UNCHANGED <<m_configuration, m_slcp_defines, base_project,
                   out_configuration, out_define, once, passes>>
    /\ UNCHANGED <<rvars, ivars>>

NextMerge ==
    \/ MergeConfigAndDefines
    \/ MergeAgain
    \/ WriteProject

(***************************************************************************)
(* Define injection engine: text helpers.                                  *)
(***************************************************************************)
\* Characters str.strip() removes, as tokens.
Whitespace == {" ", "\t"}

\* pat occurs in line at position i
OccursAt(line, pat, i) ==
    /\ i >= 1
    /\ i + Len(pat) - 1 <= Len(line)
    /\ SubSeq(line, i, i + Len(pat) - 1) = pat

\* str.find, from 1: the first position where pat occurs in line, 0 for none
Find(line, pat) ==
    IF \E i \in 1..(Len(line) + 1) : OccursAt(line, pat, i)
    THEN CHOOSE i \in 1..(Len(line) + 1) :
             /\ OccursAt(line, pat, i)
             /\ \A j \in 1..(i - 1) : ~OccursAt(line, pat, j)
    ELSE 0

\* pat in line
Contains(line, pat) == Find(line, pat) # 0

\* str.strip()
RECURSIVE LStrip(_)
LStrip(text) ==
    IF text # <<>> /\ Head(text) \in Whitespace THEN LStrip(Tail(text))
    ELSE text

RECURSIVE RStrip(_)
RStrip(text) ==
    IF text # <<>> /\ text[Len(text)] \in Whitespace
    THEN RStrip(SubSeq(text, 1, Len(text) - 1))
    ELSE text

Strip(text) == RStrip(LStrip(text))

\* f"#define {define} ", line 325
DefineNeedle(define) == <<"#define", " ", define, " ">>

\* line.split(f"#define {define}", 1)[1], line 328
AfterDefine(line, define) ==
    LET pat == <<"#define", " ", define>>
        i == Find(line, pat)
    IN  SubSeq(line, i + Len(pat), Len(line))

\* lines 329-331: text[: text.index(text.strip())]
Alignment(define_with_whitespace) ==
    SubSeq(define_with_whitespace, 1,
           Find(define_with_whitespace, Strip(define_with_whitespace)) - 1)

\* get_git_commit_id, lines 85-109: the short commit id of a clean tree
GitRepoHash == "1a2b3c4d"

\* value_template_env, lines 173-175, keyed by the replacement field
ValueTemplateEnv == ("{git_repo_hash}" :> GitRepoHash)

\* The tokens str.format reads as a replacement field.
ReplacementFields == {"{git_repo_hash}", "{sdk_version}"}

\* str(value_template).format(**value_template_env), line 350; KeyError for
\* a field the environment does not define.
PyFormat(value_template) ==
    IF \E i \in DOMAIN value_template :
           /\ value_template[i] \in ReplacementFields
           /\ value_template[i] \notin DOMAIN ValueTemplateEnv
    THEN [ok |-> FALSE, value |-> <<>>]
    ELSE [ok |-> TRUE,
          value |-> [i \in DOMAIN value_template |->
                        IF value_template[i] \in DOMAIN ValueTemplateEnv
                        THEN ValueTemplateEnv[value_template[i]]
                        ELSE value_template[i]]]

\* f"#define {define}{alignment}{value}", line 352
ReplacementLine(define, alignment, value) ==
    <<"#define", " ", define>> \o alignment \o value

\* Identifier tokens made of [A-Z0-9_] only.
UpperIdentifiers == {"FOO", "BAR", "FOO_X", "OTHER_H"}

\* re.match(r"#ifndef\s+([A-Z0-9_]+)", prev_line): group(1), or "" when the
\* pattern does not match at the start of the line.
IfndefGroup(prev_line) ==
    LET rest == IF prev_line = <<>> THEN <<>> ELSE Tail(prev_line)
        name == LStrip(rest)
    IN  IF /\ prev_line # <<>> /\ Head(prev_line) = "#ifndef"
           /\ rest # <<>> /\ Head(rest) \in Whitespace
           /\ name # <<>> /\ Head(name) \in UpperIdentifiers
        THEN Head(name)
        ELSE ""

\* The quoted strings that end in: not configured"
NotConfiguredStrings ==
    {"\"FOO not configured\"", "\"BAR not configured\""}

\* re.match(r'#warning ".*? not configured"', prev_line)
WarningShape(prev_line) ==
    /\ Len(prev_line) >= 3
    /\ prev_line[1] = "#warning"
    /\ prev_line[2] = " "
    /\ prev_line[3] \in NotConfiguredStrings

\* A Python list index on a list of length n: the position from 1, 0 when
\* the index is out of range (IndexError).
PyIndex(n, index) ==
    IF index >= 0 THEN (IF index < n THEN index + 1 ELSE 0)
    ELSE (IF -index <= n THEN n + index + 1 ELSE 0)

\* A test that never finds a name used twice.
UsedTwiceNever(define, unused) == FALSE

\* line 355: the name was already removed from unused_defines
UsedTwice(define, unused) == define \notin unused

(***************************************************************************)
(* Define injection engine: the loop over the lines of one file, lines     *)
(* 319-362.  The accumulator acc holds new_config_h_lines (new),           *)
(* written_config (written), unused_defines (unused), the count of         *)
(* replacement lines per name (consumed), the replacement lines (emitted)  *)
(* and how the loop stands: "ok", "used_twice" (sys.exit(1) of line 357)   *)
(* or the exception raised, with the define at hand (culprit).             *)
(***************************************************************************)
Stop(acc, status, define) ==
    [acc EXCEPT !.status = status, !.culprit = define]

\* lines 350-360, with the list as the guard/warning handling left it
EmitDefine(acc, line, define, value_template, alignment) ==
    LET f == PyFormat(value_template)
        new_line == ReplacementLine(define, alignment, f.value)
        appended ==
            [acc EXCEPT !.new = Append(@, new_line),
                        !.written = @ \cup {define},
                        !.consumed[define] = @ + 1,
                        !.emitted = @ \cup {[original |-> line,
                                             define |-> define,
                                             line |-> new_line]}]
    IN  IF ~f.ok THEN Stop(acc, "KeyError", define)
        ELSE IF UsedTwice(define, acc.unused)
        THEN Stop(appended, "used_twice", define)
        ELSE [appended EXCEPT !.unused = @ \ {define}]

\* lines 328-360 for the line at 0-based position index and the first
\* define of c_defines that it holds
PatchDefine(config_h_lines, index, acc, define, value_template) ==
    LET line == config_h_lines[index + 1]
        alignment == Alignment(AfterDefine(line, define))
        prev_line ==
            config_h_lines[PyIndex(Len(config_h_lines), index - 1)]
        at == PyIndex(Len(acc.new), index - 1)
    IN  IF \E i \in DOMAIN prev_line : prev_line[i] = "#ifndef"
        THEN IF IfndefGroup(prev_line) = ""
             THEN Stop(acc, "AttributeError", define)
             ELSE IF IfndefGroup(prev_line) # define
             THEN Stop(acc, "AssertionError", define)
             ELSE IF define \in project_defines
             THEN Stop(acc, "AssertionError", define)
             ELSE IF at = 0
             THEN Stop(acc, "IndexError", define)
             ELSE EmitDefine([acc EXCEPT !.new[at] = <<"#if", " ", "1">>],
                             line, define, value_template, alignment)
        ELSE IF \E i \in DOMAIN prev_line : prev_line[i] = "#warning"
        THEN IF ~WarningShape(prev_line)
             THEN Stop(acc, "AssertionError", define)
             ELSE IF at = 0
             THEN Stop(acc, "IndexError", define)
             ELSE EmitDefine([acc EXCEPT !.new = RemoveAt(@, at)],
                             line, define, value_template, alignment)
        ELSE EmitDefine(acc, line, define, value_template, alignment)

\* lines 324-362: one line of the file
ScanLine(config_h_lines, index, acc) ==
    LET line == config_h_lines[index + 1]
        hits == {i \in DOMAIN c_defines :
                     Contains(line, DefineNeedle(c_defines[i].name))}
    IN  IF hits = {}
        THEN [acc EXCEPT !.new = Append(@, line)]
        ELSE LET i == CHOOSE h \in hits : \A g \in hits : h <= g
             IN  PatchDefine(config_h_lines, index, acc, c_defines[i].name,
                             c_defines[i].template)

\* lines 323-362: enumerate(config_h_lines) from index on
RECURSIVE ScanLines(_, _, _)
ScanLines(config_h_lines, index, acc) ==
    IF index >= Len(config_h_lines) \/ acc.status # "ok" THEN acc
    ELSE ScanLines(config_h_lines, index + 1,
                   ScanLine(config_h_lines, index, acc))

\* lines 319-362 for one file
ScanFile(config_h_lines) ==
    ScanLines(config_h_lines, 0,
              [new |-> <<>>, written |-> {}, unused |-> unused_defines,
               consumed |-> consumed, emitted |-> {}, status |-> "ok",
               culprit |-> ""])

(***************************************************************************)
(* The header files the generator leaves: each file is made of blocks of   *)
(* the shapes the generator writes around a configuration macro.           *)
(***************************************************************************)
LineIfndef(n) == <<"#ifndef", " ", n>>
LineWarning(n) ==
    <<"#warning", " ",
      IF n = "FOO" THEN "\"FOO not configured\""
      ELSE "\"BAR not configured\"">>
LineDefine(n) == <<"#define", " ", n, " ", "1">>
LineCommentedDefine(n) == <<"//", " ", "#define", " ", n, " ", " ", "1">>
LineEndif == <<"#endif">>

BlockGuarded(n) == <<LineIfndef(n), LineDefine(n), LineEndif>>
BlockWarned(n) == <<LineWarning(n), LineCommentedDefine(n)>>
BlockGuardedWarned(n) ==
    <<LineIfndef(n), LineWarning(n), LineDefine(n), LineEndif>>
BlockPlain(n) == <<LineDefine(n)>>
BlockNoValue(n) == <<<<"#define", " ", n, " ">>>>
BlockWrongGuard(n) == <<LineIfndef("OTHER_H"), LineDefine(n), LineEndif>>
BlockEither(n) ==
    <<<<"#if", " ", "DEBUG">>, LineDefine(n), <<"#else">>, LineDefine(n),
      LineEndif>>
BlockUnrelated == <<LineDefine("FOO_X")>>
BlockBlank == <<<<>>>>

Blocks ==
    {BlockGuarded("FOO"), BlockWarned("FOO"), BlockGuardedWarned("FOO"),
     BlockPlain("FOO"), BlockNoValue("FOO"), BlockWrongGuard("FOO"),
     BlockEither("FOO"),
     BlockGuarded("BAR"), BlockWarned("BAR"), BlockPlain("BAR"),
     BlockEither("BAR"), BlockUnrelated, BlockBlank}

RECURSIVE Flatten(_)
Flatten(blocks) ==
    IF blocks = <<>> THEN <<>> ELSE Head(blocks) \o Flatten(Tail(blocks))

\* The text of a file with these blocks; a file without any is the empty
\* text, whose split is one empty line.
FileOf(blocks) == IF blocks = <<>> THEN <<<<>>>> ELSE Flatten(blocks)

\* One file under autogen/ and one under config/, the blocks shared out
\* between them.
HeaderSets ==
    UNION {{<<FileOf(SubSeq(b, 1, k)), FileOf(SubSeq(b, k + 1, Len(b)))>> :
               k \in 0..Len(b)} : b \in SeqsUpTo(Blocks, MaxBlocks)}

Item(name, template) == [name |-> name, template |-> template]

CDefineMaps ==
    {<<Item("FOO", <<"2">>)>>,
     <<Item("FOO", <<"rev-", "{git_repo_hash}">>)>>,
     <<Item("FOO", <<"2">>), Item("BAR", <<"rev-", "{git_repo_hash}">>)>>}

Requested == {c_defines[i].name : i \in DOMAIN c_defines}

(***************************************************************************)
(* Define injection engine: the actions.                                   *)
(***************************************************************************)
IdleInject ==
    /\ c_defines = <<>> /\ project_defines = {} /\ build_system = "cmake"
    /\ headers = <<>> /\ generated = <<>> /\ scanned_input = <<>>
    /\ scan_pos = 0
    /\ unused_defines = {} /\ consumed = <<>> /\ emitted = {}
    /\ diagnostic = [kind |-> "none", names |-> {}]
    /\ run = 0 /\ first_result = <<>> /\ log = <<>> /\ pc = "idle"

\* line 315, and the counters of a run that starts
StartEngine(h) ==
    /\ scanned_input' = h
    /\ scan_pos' = 0
    /\ unused_defines' = Requested
    /\ consumed' = [n \in Requested |-> 0]
    /\ emitted' = {}

InitInject ==
    /\ c_defines \in CDefineMaps
    /\ project_defines \in {{}, {"FOO"}}
    /\ build_system = "cmake"
    /\ headers \in HeaderSets
    /\ generated = headers
    /\ scanned_input = headers
    /\ scan_pos = 0
    /\ unused_defines = Requested
    /\ consumed = [n \in Requested |-> 0]
    /\ emitted = {}
    /\ diagnostic = [kind |-> "none", names |-> {}]
    /\ run = 1
    /\ first_result = <<>>
    /\ log = <<>>
    /\ pc = "scan"

\* lines 318-366: the body of the loop for the next file
ScanHeader ==
    /\ pc = "scan"
    /\ scan_pos < Len(headers)
    /\ LET r == ScanFile(headers[scan_pos + 1])
       IN  /\ unused_defines' = r.unused
           /\ consumed' = r.consumed
           /\ emitted' = emitted \cup r.emitted
           /\ IF r.status = "ok"
              THEN /\ headers' = IF r.written # {}
                                 THEN [headers EXCEPT ![scan_pos + 1] = r.new]
                                 ELSE headers
                   /\ scan_pos' = scan_pos + 1
                   /\ UNCHANGED <<diagnostic, pc, log>>
              ELSE /\ diagnostic' = [kind |-> r.status, names |-> {r.culprit}]
                   /\ pc' = IF r.status = "used_twice" THEN "exit1"
                            ELSE "raised"
                   /\ log' = Append(log, "injection_failed")
                   /\ UNCHANGED <<headers, scan_pos>>
    /\ UNCHANGED <<c_defines, project_defines, build_system, generated,
                   scanned_input, run, first_result>>
    /\ UNCHANGED <<rvars, mvars>>

\* A test that lets a run with unused names through.
UnusedAbortsNever(unused) == FALSE

\* line 368: if unused_defines
UnusedAborts(unused) == unused # {}

\* A report that names one of the unused names only.
UnusedReportOne(unused) == {CHOOSE n \in unused : TRUE}

\* line 369: the whole set is printed
UnusedReport(unused) == unused

\* lines 368-370
CheckUnused ==
    /\ pc = "scan"
    /\ scan_pos = Len(headers)
    /\ IF UnusedAborts(unused_defines)
       THEN /\ diagnostic' = [kind |-> "unused",
                              names |-> UnusedReport(unused_defines)]
            /\ pc' = "exit1"
            /\ log' = Append(log, "injection_failed")
       ELSE /\ pc' = "injected"
            /\ log' = Append(log, "injected")
            /\ UNCHANGED diagnostic
    /\ UNCHANGED <<c_defines, project_defines, build_system, headers,
                   generated, scanned_input, scan_pos, unused_defines,
                   consumed, emitted, run, first_result>>
    /\ UNCHANGED <<rvars, mvars>>

\* The engine started again on the files a successful run left.
RunAgain ==
    /\ pc = "injected"
    /\ run < MaxRuns
    /\ run' = run + 1
    /\ first_result' = IF run = 1 THEN headers ELSE first_result
    /\ StartEngine(headers)
    /\ pc' = "scan"
    /\ UNCHANGED <<c_defines, project_defines, build_system, headers,
                   generated, diagnostic, log>>
    /\ UNCHANGED <<rvars, mvars>>

NextInject ==
    \/ ScanHeader
    \/ CheckUnused
    \/ RunAgain

(***************************************************************************)
(* The pipeline around the engine, lines 268-466.  What the file system    *)
(* and the external tools answer is chosen by the environment at the step  *)
(* that asks.  log records the side effects in the order they happen.      *)
(***************************************************************************)
InitPipeline ==
    /\ c_defines \in CDefineMaps
    /\ project_defines \in {{}, {"FOO"}}
    /\ build_system \in {"cmake", "makefile"}
    /\ headers = <<>>
    /\ generated = <<>>
    /\ scanned_input = <<>>
    /\ scan_pos = 0
    /\ unused_defines = {}
    /\ consumed = [n \in Requested |-> 0]
    /\ emitted = {}
    /\ diagnostic = [kind |-> "none", names |-> {}]
    /\ run = 1
    /\ first_result = <<>>
    /\ log = <<>>
    /\ pc = "write_slcp"

\* What a stage leaves alone besides log, diagnostic and pc.
StageFrame ==
    /\ UNCHANGED <<c_defines, project_defines, build_system, headers,
                   generated, scanned_input, scan_pos, unused_defines,
                   consumed, emitted, run, first_result>>
    /\ UNCHANGED <<rvars, mvars>>

\* sys.exit(1) after a print, or an exception nothing catches
Fail(to, kind, name, event) ==
    /\ pc' = to
    /\ diagnostic' = [kind |-> kind, names |-> {name}]
    /\ log' = Append(log, event)

Proceed(to, event) ==
    /\ pc' = to
    /\ log' = Append(log, event)
    /\ UNCHANGED diagnostic

\* lines 268-270
WriteSlcp ==
    /\ pc = "write_slcp"
    /\ Proceed("write_metadata", "slcp_written")
    /\ StageFrame

\* lines 272-274
WriteMetadata ==
    /\ pc = "write_metadata"
    /\ Proceed("find_slc", "metadata_written")
    /\ StageFrame

\* lines 281-286
FindSlc ==
    /\ pc = "find_slc"
    /\ \E slc_cli \in BOOLEAN, slc \in BOOLEAN :
           IF slc_cli \/ slc
           THEN Proceed("check_extensions", "slc_found")
           ELSE Fail("exit1", "slc_missing", "slc", "slc_missing")
    /\ StageFrame

\* lines 288-294
CheckExtensions ==
    /\ pc = "check_extensions"
    /\ \E all_present \in BOOLEAN :
           IF all_present
           THEN Proceed("generate", "extensions_ok")
           ELSE Fail("exit1", "extension_missing", "sdk_extension",
                     "extension_missing")
    /\ StageFrame

\* subprocess.run(..., check=True) returned: a nonzero exit status raises
\* CalledProcessError
ReturnedOk(returncode) == returncode = 0

\* lines 296-315: the generator is run and leaves the header files
Generate ==
    /\ pc = "generate"
    /\ \E returncode \in {0, 1}, h \in HeaderSets :
           IF ReturnedOk(returncode)
           THEN /\ headers' = h
                /\ generated' = h
                /\ StartEngine(h)
                /\ pc' = "scan"
                /\ log' = log \o <<"generator_invoked", "generator_ok">>
                /\ UNCHANGED diagnostic
           ELSE /\ Fail("raised", "CalledProcessError", "slc",
                        "generator_invoked")
                /\ UNCHANGED <<headers, generated, scanned_input, scan_pos,
                               unused_defines, consumed, emitted>>
    /\ UNCHANGED <<c_defines, project_defines, build_system, run,
                   first_result>>
    /\ UNCHANGED <<rvars, mvars>>

\* lines 372-397: the build descriptor rewrite; line 385 asserts that no
\* root path holds a double quote
RewriteCMake ==
    /\ pc = "injected"
    /\ build_system = "cmake"
    /\ \E quote_in_path \in BOOLEAN :
           IF quote_in_path
           THEN Fail("raised", "AssertionError", "path", "rewrite_failed")
           ELSE Proceed("cmake", "cmake_rewritten")
    /\ StageFrame

\* lines 399-415
RunCMake ==
    /\ pc = "cmake"
    /\ \E returncode \in {0, 1} :
           IF ReturnedOk(returncode)
           THEN /\ pc' = "ninja"
                /\ log' = log \o <<"cmake_invoked", "cmake_ok">>
                /\ UNCHANGED diagnostic
           ELSE Fail("raised", "CalledProcessError", "cmake",
                     "cmake_invoked")
    /\ StageFrame

\* lines 417-429
RunNinja ==
    /\ pc = "ninja"
    /\ \E returncode \in {0, 1} :
           IF ReturnedOk(returncode)
           THEN /\ pc' = "copy"
                /\ log' = log \o <<"ninja_invoked", "build_ok">>
                /\ UNCHANGED diagnostic
           ELSE Fail("raised", "CalledProcessError", "ninja",
                     "ninja_invoked")
    /\ StageFrame

\* lines 430-446
PatchMakefile ==
    /\ pc = "injected"
    /\ build_system = "makefile"
    /\ Proceed("make", "makefile_patched")
    /\ StageFrame

\* lines 448-460
RunMake ==
    /\ pc = "make"
    /\ \E returncode \in {0, 1} :
           IF ReturnedOk(returncode)
           THEN /\ pc' = "copy"
                /\ log' = log \o <<"make_invoked", "build_ok">>
                /\ UNCHANGED diagnostic
           ELSE Fail("raised", "CalledProcessError", "make",
                     "make_invoked")
    /\ StageFrame

\* lines 462-466
CopyArtifact ==
    /\ pc = "copy"
    /\ Proceed("done", "artifact_copied")
    /\ StageFrame

NextPipeline ==
    \/ WriteSlcp
    \/ WriteMetadata
    \/ FindSlc
    \/ CheckExtensions
    \/ Generate
    \/ ScanHeader
    \/ CheckUnused
    \/ RewriteCMake
    \/ RunCMake
    \/ RunNinja
    \/ PatchMakefile
    \/ RunMake
    \/ CopyArtifact

(***************************************************************************)
(* The specifications.                                                     *)
(***************************************************************************)
\* Each specification runs one part of main() on its own inputs; the state
\* of the other parts stays idle.
ResolverAlone == InitResolve /\ IdleMerge /\ IdleInject
MergerAlone == IdleResolve /\ InitMerge /\ IdleInject
EngineAlone == IdleResolve /\ IdleMerge /\ InitInject
WholePipeline == IdleResolve /\ IdleMerge /\ InitPipeline

SpecResolve == ResolverAlone /\ [][NextResolve]_vars

SpecMerge == MergerAlone /\ [][NextMerge]_vars

SpecInject == EngineAlone /\ [][NextInject]_vars

SpecPipeline == WholePipeline /\ [][NextPipeline]_vars

(***************************************************************************)
(* Claims about the component set resolver.                                *)
(***************************************************************************)
Id_brd4001a_x == <<"b","r","d","4","0","0","1","a","_","x">>
Id_brd4001 == <<"b","r","d","4","0","0","1">>
Id_EFM32GG890F512 ==
    <<"E","F","M","3","2","G","G","8","9","0","F","5","1","2">>
Id_a1 == <<"a","1">>
Id_six_groups == <<"a","1","b","2","c","3","d","4","e","5","f","6">>
Id_five_groups == <<"a","1","b","2","c","3","d","4","e","5","f">>

\* What the pattern decides on a table of identifiers, worked out by hand
\* from its grammar: 2 to 5 letter/digit groups with optional trailing
\* letters, or brd + digits + one letter + optional _suffix.
RegexSamples ==
    {Id_mgm210pb32jia, Id_bluetooth_stack, Id_led_driver,
     Id_efr32fg14p231f256gm32, Id_brd4001a, Id_brd4001a_x, Id_brd4001,
     Id_EFM32GG890F512, Id_a1, Id_six_groups, Id_five_groups}
ExpectedChipSpecificIds ==
    {Id_mgm210pb32jia, Id_efr32fg14p231f256gm32, Id_brd4001a, Id_brd4001a_x,
     Id_EFM32GG890F512, Id_five_groups}

IdsOf(comps) == [i \in DOMAIN comps |-> comps[i].id]

\* C6: after component resolution the component identifiers are pairwise
\* unique and exactly one of them equals the manifest's device identifier,
\* for every base list, device, add-list and remove-list.
C6_UniqueIdsOneDevice ==
    rpc = "resolved" =>
        /\ \A i, j \in DOMAIN component :
               i # j => component[i].id # component[j].id
        /\ Cardinality({i \in DOMAIN component : component[i].id = device}) = 1

\* C7, first half: before any removal the list is the base components whose
\* id is not chip/board specific, in their order, then the device entry, then
\* the add-list.
C7_StripInstallAdd ==
    (rpc = "remove" /\ remove_pos = 0) =>
        component =
            SelectSeq(base_component,
                      LAMBDA c : c.id \notin ExpectedChipSpecificIds)
            \o <<[id |-> device, instance |-> ""]>>
            \o add_components

\* C7, the pattern itself, on the table of samples.
C7_RegexTable ==
    \A id \in RegexSamples :
        CHIP_SPECIFIC_REGEX(id) <=> id \in ExpectedChipSpecificIds

\* C7, the example of the specification.
C7_IsExample ==
    /\ base_component = <<Comp(Id_mgm210pb32jia), Comp(Id_bluetooth_stack),
                          Comp(Id_led_driver)>>
    /\ device = Id_efr32fg14p231f256gm32
    /\ add_components = <<>>
    /\ remove_components = <<Comp(Id_led_driver)>>

C7_Example ==
    (C7_IsExample /\ rpc = "resolved") =>
        /\ component = <<Comp(Id_bluetooth_stack),
                         Comp(Id_efr32fg14p231f256gm32)>>
        /\ warnings = <<>>

\* C7, second half: a step of the removal loop takes out one entry equal to
\* the remove-list entry when there is one, and otherwise only records a
\* warning and leaves the list as it is; either way the resolver goes on.
C7_RemoveStep ==
    remove_pos' = remove_pos + 1 =>
        LET c == remove_components[remove_pos']
        IN  /\ rpc' = "remove"
            /\ IF \E i \in DOMAIN component : component[i] = c
               THEN /\ \E i \in DOMAIN component :
                          /\ component[i] = c
                          /\ component' = RemoveAt(component, i)
                    /\ Len(component') = Len(component) - 1
                    /\ warnings' = warnings
               ELSE /\ component' = component
                    /\ warnings' = Append(warnings, c)

\* C7: component resolution returns the survivors of the strip, the device
\* entry and the add-list entries, in that order; each remove-list entry
\* then removes one exactly-equal entry or, when absent, only warns.
C7_Resolution ==
    /\ [](C7_StripInstallAdd /\ C7_RegexTable /\ C7_Example)
    /\ [][C7_RemoveStep]_vars

\* C7's case: the example has been resolved, and a removal has acted.
C7_Witness ==
    /\ C7_IsExample
    /\ rpc = "resolved"
    /\ component = <<Comp(Id_bluetooth_stack), Comp(Id_efr32fg14p231f256gm32)>>

(***************************************************************************)
(* Claims about the configuration and define merger.                       *)
(***************************************************************************)
\* The string form of the scalars of the model's inputs, as a table.
StringForm(value) ==
    IF value = IntVal(1) THEN StrVal("1")
    ELSE IF value = BoolVal(TRUE) THEN StrVal("True")
    ELSE value

NamesOf(entries) == {entries[i].name : i \in DOMAIN entries}

\* result is dest merged with map: the first entry of each name of the map
\* carries the map's value as a string, every other entry of dest is as it
\* was and where it was, and the names dest did not hold follow at the end,
\* in the map's order.
IsMergeOf(result, dest, map) ==
    LET new == SelectSeq(map, LAMBDA it : it.name \notin NamesOf(dest))
    IN  /\ Len(result) = Len(dest) + Len(new)
        /\ \A i \in DOMAIN dest :
               /\ result[i].name = dest[i].name
               /\ IF /\ dest[i].name \in NamesOf(map)
                     /\ \A j \in 1..(i - 1) : dest[j].name # dest[i].name
                  THEN \E k \in DOMAIN map :
                           /\ map[k].name = dest[i].name
                           /\ result[i].value = StringForm(map[k].value)
                  ELSE result[i].value = dest[i].value
        /\ \A k \in DOMAIN new :
               result[Len(dest) + k] =
                   [name |-> new[k].name, value |-> StringForm(new[k].value)]

\* C8: the descriptor written out holds, for both manifest maps, the merge
\* of the map into the corresponding sequence of the base descriptor
\* (replaced in place, else appended, the rest untouched), also when the
\* base descriptor has no define field.
C8_WrittenHoldsMerge ==
    mpc = "written" =>
        /\ written_project.configuration.present
        /\ IsMergeOf(written_project.configuration.list,
                     base_project.configuration.list, m_configuration)
        /\ \A k \in DOMAIN m_slcp_defines :
               /\ written_project.define.present
               /\ \E i \in DOMAIN written_project.define.list :
                      written_project.define.list[i] =
                          [name |-> m_slcp_defines[k].name,
                           value |-> StringForm(m_slcp_defines[k].value)]
        /\ written_project.define.present =>
               IsMergeOf(written_project.define.list,
                         base_project.define.list, m_slcp_defines)

\* The same, for the base descriptors that have a define field.
MergeHoldsWithDefineField ==
    (mpc = "written" /\ base_project.define.present) =>
        /\ IsMergeOf(written_project.configuration.list,
                     base_project.configuration.list, m_configuration)
        /\ written_project.define.present
        /\ IsMergeOf(written_project.define.list,
                     base_project.define.list, m_slcp_defines)

\* C9: merging the same maps a second time leaves both sequences exactly as
\* the first merge left them, entry for entry, also when the destination
\* repeats a name.
C9_MergeIdempotent ==
    passes = 2 =>
        /\ out_configuration = once.configuration
        /\ out_define = once.define

\* C9's case: merged twice, into a destination that repeats a name the map
\* sets, with a name the map had to append.
C9_Witness ==
    /\ passes = 2
    /\ base_project.configuration.list =
           <<Entry("TX_POWER", StrVal("5")), Entry("TX_POWER", StrVal("5"))>>
    /\ m_configuration =
           <<Entry("TX_POWER", StrVal("10")), Entry("NEW", IntVal(1))>>
    /\ out_configuration.list =
           <<Entry("TX_POWER", StrVal("10")), Entry("TX_POWER", StrVal("5")),
             Entry("NEW", StrVal("1"))>>

(***************************************************************************)
(* Claims about the define injection engine.  They are stated on the       *)
(* files as the run found them (scanned_input), with a reading of the      *)
(* lines of their own.                                                     *)
(***************************************************************************)
\* The line declares the requested name: it holds "#define NAME ".
Declares(line, n) ==
    \E i \in DOMAIN line :
        /\ i + 3 <= Len(line)
        /\ line[i] = "#define" /\ line[i + 1] = " "
        /\ line[i + 2] = n /\ line[i + 3] = " "

\* The places <<file, line>> of the scanned files that declare n.
MatchPositions(n) ==
    UNION {{<<f, k>> : k \in {j \in DOMAIN scanned_input[f] :
                                 Declares(scanned_input[f][j], n)}} :
              f \in DOMAIN scanned_input}

\* p comes before q in the order of the scan
Earlier(p, q) == p[1] < q[1] \/ (p[1] = q[1] /\ p[2] < q[2])

\* The place of the second line that declares n (for a name with two).
SecondMatch(n) ==
    CHOOSE p \in MatchPositions(n) :
        Cardinality({q \in MatchPositions(n) : Earlier(q, p)}) = 1

\* The names the run has to object to.
Offending == {n \in Requested : Cardinality(MatchPositions(n)) # 1}

EngineEnded == pc \in {"injected", "exit1", "raised"}

C4_AsClaimed ==
    (pc = "exit1" /\ diagnostic.kind \in {"unused", "used_twice"}) =>
        diagnostic.names = Offending

\* C4 as amended: the abort for unused names reports every name that was
\* never consumed; the abort for double consumption happens at the first
\* line that consumes a name a second time and reports that one name only.
C4_ReportedNames ==
    /\ diagnostic.kind = "unused" =>
           diagnostic.names = {n \in Requested : MatchPositions(n) = {}}
    /\ diagnostic.kind = "used_twice" =>
           \E n \in Requested :
               /\ diagnostic.names = {n}
               /\ Cardinality(MatchPositions(n)) >= 2
               /\ \A m \in Requested :
                      Cardinality(MatchPositions(m)) >= 2 =>
                          ~Earlier(SecondMatch(m), SecondMatch(n))

\* C4's case: two names are each declared twice and the abort reports the
\* first of them only.
C4_Witness ==
    /\ pc = "exit1"
    /\ diagnostic.kind = "used_twice"
    /\ Cardinality(diagnostic.names) = 1
    /\ Cardinality({n \in Requested :
                       Cardinality(MatchPositions(n)) >= 2}) = 2

\* The rewritten form of a define line, C2 taking the separator and the
\* value as the engine computes them.
Rewritten(line) ==
    LET i == CHOOSE k \in DOMAIN c_defines :
                 /\ Declares(line, c_defines[k].name)
                 /\ \A j \in 1..(k - 1) : ~Declares(line, c_defines[j].name)
        n == c_defines[i].name
    IN  ReplacementLine(n, Alignment(AfterDefine(line, n)),
                        PyFormat(c_defines[i].template).value)

IsDefineLine(line) == \E n \in Requested : Declares(line, n)

IsNotConfiguredWarning(line) ==
    /\ Len(line) = 3
    /\ line[1] = "#warning" /\ line[2] = " "
    /\ line[3] \in {"\"FOO not configured\"", "\"BAR not configured\""}

\* What C2 says becomes of the lines k.. of a header.
RECURSIVE PatchFrom(_, _)
PatchFrom(lines, k) ==
    IF k > Len(lines) THEN <<>>
    ELSE LET line == lines[k]
             precedes == k < Len(lines) /\ IsDefineLine(lines[k + 1])
         IN  IF IsDefineLine(line)
             THEN <<Rewritten(line)>> \o PatchFrom(lines, k + 1)
             ELSE IF /\ precedes
                     /\ \E n \in Requested :
                            /\ line = <<"#ifndef", " ", n>>
                            /\ Declares(lines[k + 1], n)
             THEN <<<<"#if", " ", "1">>>> \o PatchFrom(lines, k + 1)
             ELSE IF precedes /\ IsNotConfiguredWarning(line)
             THEN PatchFrom(lines, k + 1)
             ELSE <<line>> \o PatchFrom(lines, k + 1)

\* Every requested name is declared once, every #ifndef before a define
\* line names the macro of that line and is not also set by the project,
\* every #warning before one is a "not configured" warning.
WellFormedInput ==
    /\ Offending = {}
    /\ \A f \in DOMAIN scanned_input :
           \A k \in 2..Len(scanned_input[f]) :
               LET line == scanned_input[f][k]
                   prev == scanned_input[f][k - 1]
               IN  IsDefineLine(line) =>
                       /\ (\E i \in DOMAIN prev : prev[i] = "#ifndef") =>
                              \E n \in Requested \ project_defines :
                                  /\ prev = <<"#ifndef", " ", n>>
                                  /\ Declares(line, n)
                       /\ (\E i \in DOMAIN prev : prev[i] = "#warning") =>
                              IsNotConfiguredWarning(prev)

\* Every file the scan has gone through is patched as C2 says.
ScannedFilesPatched ==
    \A f \in 1..scan_pos : headers[f] = PatchFrom(scanned_input[f], 1)

\* C2: whatever number of requested define lines a header holds, the engine
\* leaves it with each preceding #ifndef NAME turned into #if 1, each
\* preceding "not configured" warning removed, each define line rewritten
\* and every other line as it was, in order.
C2_PatchedAsSpecified ==
    /\ ScannedFilesPatched
    /\ (EngineEnded /\ WellFormedInput) =>
           /\ pc = "injected"
           /\ \A f \in DOMAIN headers :
                  headers[f] = PatchFrom(scanned_input[f], 1)

\* The engine on well-formed headers that hold no "not configured" warning.
PatchedWithoutWarnings ==
    (/\ EngineEnded /\ WellFormedInput
     /\ \A f \in DOMAIN scanned_input : \A k \in DOMAIN scanned_input[f] :
            ~IsNotConfiguredWarning(scanned_input[f][k])) =>
        /\ pc = "injected"
        /\ \A f \in DOMAIN headers :
               headers[f] = PatchFrom(scanned_input[f], 1)

\* The longest run of whitespace at the start of text.
RECURSIVE LeadingWhitespace(_)
LeadingWhitespace(text) ==
    IF text # <<>> /\ Head(text) \in {" ", "\t"}
    THEN <<Head(text)>> \o LeadingWhitespace(Tail(text))
    ELSE <<>>

\* What follows "#define NAME" on the line.
AfterName(line, n) ==
    LET i == CHOOSE k \in DOMAIN line :
                 k + 2 <= Len(line) /\ line[k] = "#define"
                 /\ line[k + 1] = " " /\ line[k + 2] = n
    IN  SubSeq(line, i + 3, Len(line))

\* The value template with the revision token resolved.
Resolved(template) ==
    [i \in DOMAIN template |->
        IF template[i] = "{git_repo_hash}" THEN "1a2b3c4d" ELSE template[i]]

TemplateOf(n) ==
    (CHOOSE it \in Range(c_defines) : it.name = n).template

\* C3: every replacement line is "#define ", the name, the whitespace that
\* followed the name on the original line, which is not empty, and the
\* value template with {git_repo_hash} resolved.
C3_ReplacementLine ==
    \A e \in emitted :
        LET alignment == LeadingWhitespace(AfterName(e.original, e.define))
        IN  /\ alignment # <<>>
            /\ e.line = <<"#define", " ", e.define>> \o alignment
                            \o Resolved(TemplateOf(e.define))

\* The same, for the lines that hold a value after the name.
ReplacementLineWithValue ==
    \A e \in emitted :
        LET rest == AfterName(e.original, e.define)
            alignment == LeadingWhitespace(rest)
        IN  alignment # rest =>
                /\ alignment # <<>>
                /\ e.line = <<"#define", " ", e.define>> \o alignment
                                \o Resolved(TemplateOf(e.define))

\* C5: a second run of the engine over the headers a successful first run
\* left completes, consumes every requested name exactly once and leaves
\* every header as it found it.
C5_Idempotent ==
    (run = 2 /\ EngineEnded) =>
        /\ pc = "injected"
        /\ \A n \in Requested : consumed[n] = 1
        /\ headers = first_result

\* The second run on headers the generator wrote without any "not
\* configured" warning and without a define line that lacks a value.
IdempotentOnPlainAndGuarded ==
    (/\ run = 2 /\ EngineEnded
     /\ \A f \in DOMAIN generated : \A k \in DOMAIN generated[f] :
            /\ ~IsNotConfiguredWarning(generated[f][k])
            /\ generated[f][k] # <<"#define", " ", "FOO", " ">>) =>
        /\ pc = "injected"
        /\ \A n \in Requested : consumed[n] = 1
        /\ headers = first_result

(***************************************************************************)
(* Claim about the order of the pipeline stages.                           *)
(***************************************************************************)
CMakeRun ==
    <<"slcp_written", "metadata_written", "slc_found", "extensions_ok",
      "generator_invoked", "generator_ok", "injected", "cmake_rewritten",
      "cmake_invoked", "cmake_ok", "ninja_invoked", "build_ok",
      "artifact_copied">>
MakefileRun ==
    <<"slcp_written", "metadata_written", "slc_found", "extensions_ok",
      "generator_invoked", "generator_ok", "injected", "makefile_patched",
      "make_invoked", "build_ok", "artifact_copied">>
FailureEvents ==
    {"slc_missing", "extension_missing", "injection_failed", "rewrite_failed"}
BuildDriverEvents == {"cmake_invoked", "ninja_invoked", "make_invoked"}

IsPrefix(a, b) == Len(a) <= Len(b) /\ a = SubSeq(b, 1, Len(a))

\* C10: the side effects of a run are, in this order, the descriptor and
\* the metadata file written, the generator found and the extensions
\* checked, the generator run, the injection ended, the build descriptor
\* rewritten, the build driver run and the artifact copied, cut short at
\* the first failure; the injection has ended only with every requested
\* define consumed exactly once; no build driver runs after a missing
\* executable, a missing extension, a define used twice or an unused one.
C10_StagesInOrder ==
    LET full == IF build_system = "cmake" THEN CMakeRun ELSE MakefileRun
    IN  /\ \/ IsPrefix(log, full)
           \/ /\ log # <<>>
              /\ log[Len(log)] \in FailureEvents
              /\ IsPrefix(SubSeq(log, 1, Len(log) - 1), full)
        /\ (pc = "scan" \/ scan_pos > 0) => "generator_ok" \in Range(log)
        /\ "injected" \in Range(log) =>
               /\ unused_defines = {}
               /\ \A n \in Requested :
                      consumed[n] = 1 /\ Cardinality(MatchPositions(n)) = 1
        /\ diagnostic.kind # "none" =>
               /\ pc \in {"exit1", "raised"}
               /\ "artifact_copied" \notin Range(log)
        /\ diagnostic.kind \in
               {"slc_missing", "extension_missing", "used_twice", "unused"} =>
               Range(log) \cap BuildDriverEvents = {}

\* C10's case: a cmake run went through every stage, two defines injected.
C10_Witness ==
    /\ pc = "done"
    /\ log = CMakeRun
    /\ Cardinality(Requested) = 2
    /\ \A n \in Requested : consumed[n] = 1

====
